---- MODULE Spec2Model ----
(***************************************************************************)
(* GraphCodeViewer (src/app.py): the analyzer backend (PythonAnalyzer,     *)
(* CppAnalyzer, ProjectManager.analyze) and the load_and_filter callback.  *)
(*                                                                         *)
(* Representation.                                                         *)
(*  - An element id is the sequence of its '::'-separated segments, so     *)
(*    f"{parent}::{name}" is parent \o name and id.split('::')[0] is       *)
(*    Head(id).  A name is a sequence of segments too: the heuristic       *)
(*    analyzer stores qualified names such as A::g.                        *)
(*  - A source file is the sequence of declarations the analyzers          *)
(*    recognise in it (Item), each with the references of its body (Ref).  *)
(*  - A dict is a pair (order, data): the keys in insertion order and the  *)
(*    mapping.  Assigning to an existing key keeps the key's position.     *)
(***************************************************************************)
EXTENDS Integers, Sequences, FiniteSets, TLC

(***************************************************************************)
(* Sequence helpers                                                        *)
(***************************************************************************)
Last(s) == s[Len(s)]

Range(s) == {s[i] : i \in 1..Len(s)}

RECURSIVE Perms(_)
\* the orders in which a set may be iterated
Perms(S) ==
  IF S = {} THEN {<<>>}
  ELSE UNION {{<<x>> \o p : p \in Perms(S \ {x})} : x \in S}

(***************************************************************************)
(* Source text, as the declarations and references the analyzers see       *)
(***************************************************************************)
VarItem(n) == [k |-> "var", n |-> n, refs |-> <<>>, items |-> <<>>]

FuncItem(n, refs) == [k |-> "func", n |-> n, refs |-> refs, items |-> <<>>]

ClassItem(n, refs, items) == [k |-> "class", n |-> n, refs |-> refs, items |-> items]

CallRef(n) == [k |-> "call", n |-> n]

ReadRef(n) == [k |-> "read", n |-> n]

(***************************************************************************)
(* Dicts with insertion order                                              *)
(***************************************************************************)
EmptyDict == [order |-> <<>>, data |-> <<>>]

Keys(d) == Range(d.order)

\* an assignment that appends an entry whether or not the key is there
PutAppend(d, key, val) ==
  [order |-> Append(d.order, key),
   data  |-> (key :> val) @@ d.data]

\* d[key] = val
Put(d, key, val) ==
  [order |-> IF key \in Keys(d) THEN d.order ELSE Append(d.order, key),
   data  |-> (key :> val) @@ d.data]

\* {**a, **b}
DictMerge(a, b) ==
  [order |-> a.order \o SelectSeq(b.order, LAMBDA key : key \notin Keys(a)),
   data  |-> b.data @@ a.data]

(***************************************************************************)
(* Element records (the values of analyzer.elements)                       *)
(***************************************************************************)
NoParent == <<>>

FileElem(file_id, lang) ==
  [id |-> <<file_id>>, name |-> <<file_id>>, type |-> "file", lang |-> lang,
   parent |-> NoParent]

Elem(id, name, type, lang, parent) ==
  [id |-> id, name |-> name, type |-> type, lang |-> lang, parent |-> parent]

(***************************************************************************)
(* PythonAnalyzer                                                          *)
(***************************************************************************)
NewPy == [elements |-> EmptyDict, calls |-> <<>>, var_usages |-> <<>>,
          global_vars |-> {}]

\* node.name.startswith("__"), over the names of the model
DunderPrefixed == {"__init__"}

\* the callee of a call expression: the Name's id or the Attribute's attr
Callee(ref) == Last(ref.n)

\* the ast.Name loaded by a reference: the name itself, or the object of an
\* attribute access
LoadedName(ref) == Head(ref.n)

RECURSIVE AllRefs(_)
\* the references of a subtree, as ast.walk meets them
AllRefs(items) ==
  IF items = <<>> THEN <<>>
  ELSE Head(items).refs \o AllRefs(Head(items).items) \o AllRefs(Tail(items))

\* visit_Call for each call of a body, in source order
PyVisitCalls(an, scope, refs) ==
  IF Len(scope) > 1
  THEN [an EXCEPT !.calls = @ \o
         [i \in 1..Len(SelectSeq(refs, LAMBDA r : r.k = "call")) |->
            <<Last(scope), Callee(SelectSeq(refs, LAMBDA r : r.k = "call")[i])>>]]
  ELSE an

PyAddVar(an, scope, name) ==
  [an EXCEPT !.global_vars = @ \cup {Last(name)},
             !.elements = Put(@, Last(scope) \o name,
                              Elem(Last(scope) \o name, name, "variable", "python",
                                   Last(scope)))]

\* the loop closing visit_FunctionDef
PyCollectUsages(an, func_id, item) ==
  LET loads == SelectSeq(item.refs \o AllRefs(item.items),
                         LAMBDA r : LoadedName(r) \in an.global_vars)
  IN [an EXCEPT !.var_usages = @ \o
        [i \in 1..Len(loads) |-> <<func_id, LoadedName(loads[i])>>]]

RECURSIVE PyVisit(_, _, _)
\* NodeVisitor.visit over the statements of a body, with the scope stack
PyVisit(an, scope, items) ==
  IF items = <<>> THEN an
  ELSE LET it == Head(items)
           id == Last(scope) \o it.n
           after ==
             CASE it.k = "var" ->
                    IF Len(scope) = 1 THEN PyAddVar(an, scope, it.n) ELSE an
               [] it.k = "class" ->
                    LET a1 == [an EXCEPT !.elements =
                                 Put(@, id, Elem(id, it.n, "class", "python", Last(scope)))]
                        a2 == PyVisitCalls(a1, Append(scope, id), it.refs)
                    IN PyVisit(a2, Append(scope, id), it.items)
               [] it.k = "func" ->
                    LET type == IF Last(it.n) \in DunderPrefixed THEN "dunder"
                                ELSE "function"
                        a1 == [an EXCEPT !.elements =
                                 Put(@, id, Elem(id, it.n, type, "python", Last(scope)))]
                        a2 == PyVisitCalls(a1, Append(scope, id), it.refs)
                        a3 == PyVisit(a2, Append(scope, id), it.items)
                    IN PyCollectUsages(a3, id, it)
       IN PyVisit(after, scope, Tail(items))

\* a parse_file whose failure drops what the analyzer held
PyParseFileAborting(an, file_id, ok, items) ==
  LET a1 == [an EXCEPT !.elements = Put(@, <<file_id>>, FileElem(file_id, "python"))]
  IN IF ok THEN PyVisit(a1, <<<<file_id>>>>, items)
     ELSE [NewPy EXCEPT !.elements = Put(@, <<file_id>>, FileElem(file_id, "python"))]

\* PythonAnalyzer.parse_file; ok is FALSE when open() or ast.parse raises
PyParseFile(an, file_id, ok, items) ==
  LET a1 == [an EXCEPT !.elements = Put(@, <<file_id>>, FileElem(file_id, "python"))]
  IN IF ok THEN PyVisit(a1, <<<<file_id>>>>, items) ELSE a1

(***************************************************************************)
(* CppAnalyzer                                                             *)
(***************************************************************************)
NewCpp == [elements |-> EmptyDict, calls |-> <<>>, var_usages |-> <<>>,
           found_vars |-> {}]

keywords == {"if", "while", "for", "switch", "return", "else", "printf", "std",
             "int", "void", "bool", "string", "class", "struct", "public",
             "private"}

\* clean_name.startswith('~'), over the names of the model
TildePrefixed == {"~C"}

RECURSIVE Matches(_, _)
\* finditer of one declaration pattern over a block: the pattern matches at
\* every nesting depth of the text, in text order
Matches(items, kind) ==
  IF items = <<>> THEN <<>>
  ELSE (IF Head(items).k = kind THEN <<Head(items)>> ELSE <<>>)
       \o Matches(Head(items).items, kind) \o Matches(Tail(items), kind)

\* re.search(r'\b' + v + r'\b', body)
Mentions(refs, v) == \E i \in 1..Len(refs) : v \in Range(refs[i].n)

\* CppAnalyzer.find_calls; vorder is the iteration order of the set found_vars
find_calls(an, refs, caller_id, vorder) ==
  LET cs == SelectSeq(refs, LAMBDA r : r.k = "call" /\ Callee(r) \notin keywords)
      vs == SelectSeq(vorder, LAMBDA v : v \in an.found_vars /\ Mentions(refs, v))
  IN [an EXCEPT !.calls = @ \o [i \in 1..Len(cs) |-> <<caller_id, Callee(cs[i])>>],
                !.var_usages = @ \o [i \in 1..Len(vs) |-> <<caller_id, vs[i]>>]]

RECURSIVE CppVars(_, _, _)
\* the var_pattern loop of parse_block
CppVars(an, vars, parent_id) ==
  IF vars = <<>> THEN an
  ELSE LET v_name == Last(Head(vars).n)
           var_id == Append(parent_id, v_name)
           a1 == IF v_name \notin keywords
                 THEN [an EXCEPT !.found_vars = @ \cup {v_name},
                                 !.elements = Put(@, var_id,
                                    Elem(var_id, <<v_name>>, "variable", "cpp", parent_id))]
                 ELSE an
       IN CppVars(a1, Tail(vars), parent_id)

RECURSIVE CppFuncs(_, _, _, _)
\* the func_pattern loop of parse_block
CppFuncs(an, funcs, parent_id, vorder) ==
  IF funcs = <<>> THEN an
  ELSE LET f_name == Head(funcs).n
           clean_name == Last(f_name)
           f_id == parent_id \o f_name
           f_type == IF clean_name = "main" THEN "entry_point"
                     ELSE IF clean_name \in TildePrefixed THEN "dunder"
                     ELSE "function"
           a1 == IF clean_name \in keywords THEN an
                 ELSE find_calls(
                        [an EXCEPT !.elements =
                           Put(@, f_id, Elem(f_id, f_name, f_type, "cpp", parent_id))],
                        Head(funcs).refs, f_id, vorder)
       IN CppFuncs(a1, Tail(funcs), parent_id, vorder)

RECURSIVE parse_block(_, _, _, _)
RECURSIVE CppClasses(_, _, _, _)
\* the class_pattern loop of parse_block
CppClasses(an, classes, parent_id, vorder) ==
  IF classes = <<>> THEN an
  ELSE LET c_id == parent_id \o Head(classes).n
           a1 == [an EXCEPT !.elements =
                    Put(@, c_id, Elem(c_id, Head(classes).n, "class", "cpp", parent_id))]
       IN CppClasses(parse_block(a1, Head(classes).items, c_id, vorder),
                     Tail(classes), parent_id, vorder)

\* CppAnalyzer.parse_block
parse_block(an, content, parent_id, vorder) ==
  LET a1 == CppVars(an, Matches(content, "var"), parent_id)
      a2 == CppClasses(a1, Matches(content, "class"), parent_id, vorder)
  IN CppFuncs(a2, Matches(content, "func"), parent_id, vorder)

\* CppAnalyzer.parse_file; ok is FALSE when open() raises
CppParseFile(an, file_id, ok, content, vorder) ==
  IF ok
  THEN parse_block([an EXCEPT !.elements = Put(@, <<file_id>>, FileElem(file_id, "cpp")),
                              !.found_vars = {}],
                   content, <<file_id>>, vorder)
  ELSE an

(***************************************************************************)
(* The input tree and ProjectManager.analyze                               *)
(***************************************************************************)
\* A path is the sequence of its components; Root is the scanned directory.
Root == <<"proj">>

Basename(path) == Last(path)

\* the extension of each basename of the model (what endswith / glob test)
ExtOf == [b \in {"a.py", "b.py", "m.cpp", "u.h", "notes.txt"} |->
            CASE b \in {"a.py", "b.py"} -> "py"
              [] b = "m.cpp" -> "cpp"
              [] b = "u.h" -> "h"
              [] OTHER -> "txt"]

Ext(path) == ExtOf[Basename(path)]

\* for ext in ['*.cpp', '*.c', '*.h', '*.hpp']
CppExts == <<"cpp", "c", "h", "hpp">>

ExtRank(e) == CHOOSE i \in 1..Len(CppExts) : CppExts[i] = e

Langs == {"python", "cpp"}

VARIABLES
  fs,            \* the files under Root: path -> [ok, content]
  path,          \* analyze's argument path
  allowed_langs, \* analyze's argument allowed_langs
  pc,            \* where the call is
  todo,          \* files the glob loops have still to yield
  py, cpp,       \* the two analyzers of the call
  all_elems,     \* the merged dict
  eid,           \* the loop variable of the node loop, as the loop leaves it
  elements,      \* the list under construction, then the returned list
  added_edges,
  prev,          \* the records returned by the preceding call, as a set
  run,           \* number of calls started
  graph,         \* code-graph.elements, as load_and_filter returns it
  unit           \* the function or callback run on its own, outside analyze

vars == <<fs, path, allowed_langs, pc, todo, py, cpp, all_elems, eid, elements,
          added_edges, prev, run, graph, unit>>

\* nothing is run outside analyze
NoUnit == <<>>

IsNode(el) == "source" \notin DOMAIN el

IsEdge(el) == "source" \in DOMAIN el

\* the files the loops of analyze visit
Qualifying(f, p, langs) ==
  IF p = Root
  THEN {q \in DOMAIN f :
          \/ "python" \in langs /\ Ext(q) = "py"
          \/ "cpp" \in langs /\ Ext(q) \in Range(CppExts)}
  ELSE {p}

\* the node loop of analyze
RECURSIVE NodeRecords(_, _)
NodeRecords(order, d) ==
  IF order = <<>> THEN <<>>
  ELSE LET data == d.data[Head(order)]
           el == [id |-> Head(order), name |-> data.name, type |-> data.type,
                  lang |-> data.lang]
       IN <<IF data.parent # NoParent /\ data.parent \in Keys(d)
            THEN el @@ [parent |-> data.parent] ELSE el>>
          \o NodeRecords(Tail(order), d)

EdgeId(src, tid) == src \o <<"->">> \o tid

\* a membership test that finds no key recorded
FreshAlways(added, key) == TRUE

\* the tests "not in added_edges"
Fresh(added, key) == key \notin added

\* the tests of the call loop without the test on the target's kind
CallMatchAnyKind(d, src, dest_name, tid) ==
  /\ d.data[tid].name = <<dest_name>>
  /\ d.data[src].lang = d.data[tid].lang

\* the two tests of the call loop on a candidate target
CallMatch(d, src, dest_name, tid) ==
  /\ d.data[tid].name = <<dest_name>>
  /\ d.data[tid].type # "variable"
  /\ d.data[src].lang = d.data[tid].lang

\* a comparison of the whole ids
IsCrossById(src, tid) == src # tid

\* is_cross: the root segments of the two ids differ
IsCross(src, tid) == Head(src) # Head(tid)

RECURSIVE CallTargets(_, _, _, _)
\* the inner loop of the call loop: st is <<elements, added_edges>>
CallTargets(st, call, order, d) ==
  IF order = <<>> THEN st
  ELSE LET src == call[1]
           tid == Head(order)
           st1 == IF CallMatch(d, src, call[2], tid) /\ Fresh(st[2], EdgeId(src, tid))
                  THEN <<Append(st[1], [source |-> src, target |-> tid,
                                        classes |-> IF IsCross(src, tid) THEN "cross-file"
                                                    ELSE "internal"]),
                         st[2] \cup {EdgeId(src, tid)}>>
                  ELSE st
       IN CallTargets(st1, call, Tail(order), d)

RECURSIVE CallEdges(_, _, _)
\* the call loop of analyze
CallEdges(st, all_calls, d) ==
  IF all_calls = <<>> THEN st
  ELSE CallEdges(CallTargets(st, Head(all_calls), d.order, d), Tail(all_calls), d)

\* os.path.basename of the root segment of an id: the segment is a basename
\* already
RootBasename(id) == Head(id)

\* the tests of the variable loop without the test on the basenames
VarMatchAnyFile(d, fid, vname, tid) ==
  /\ d.data[tid].type = "variable"
  /\ d.data[tid].name = <<vname>>
  /\ d.data[fid].lang = d.data[tid].lang

\* the three tests of the variable loop on a candidate target
VarMatch(d, fid, vname, tid) ==
  /\ d.data[tid].type = "variable"
  /\ d.data[tid].name = <<vname>>
  /\ d.data[fid].lang = d.data[tid].lang
  /\ RootBasename(d.data[fid].id) = RootBasename(d.data[tid].id)

RECURSIVE VarTargets(_, _, _, _, _)
\* the inner loop of the variable loop: the dedup tests and adds e, the
\* variable eid that the node loop left behind, where it computes edge_id
VarTargets(st, usage, order, d, e) ==
  IF order = <<>> THEN st
  ELSE LET fid == usage[1]
           tid == Head(order)
           st1 == IF VarMatch(d, fid, usage[2], tid) /\ Fresh(st[2], e)
                  THEN <<Append(st[1], [source |-> fid, target |-> tid,
                                        classes |-> "var-usage"]),
                         st[2] \cup {e}>>
                  ELSE st
       IN VarTargets(st1, usage, Tail(order), d, e)

RECURSIVE VarEdges(_, _, _, _)
\* the variable loop of analyze
VarEdges(st, all_vars, d, e) ==
  IF all_vars = <<>> THEN st
  ELSE VarEdges(VarTargets(st, Head(all_vars), d.order, d, e), Tail(all_vars), d, e)

\* the two loops with the edge test on the source alone
FilterBySource(raw, filters) ==
  LET keep(el) == el.type \in {"file", "class", "entry_point"} \/ el.type \in filters
      nodes == SelectSeq(raw, LAMBDA el : IsNode(el) /\ keep(el))
      valid_ids == {nodes[i].id : i \in 1..Len(nodes)}
  IN nodes \o SelectSeq(raw, LAMBDA el : IsEdge(el) /\ el.source \in valid_ids)

\* the two loops of load_and_filter
FilterElements(raw, filters) ==
  LET keep(el) == el.type \in {"file", "class", "entry_point"} \/ el.type \in filters
      nodes == SelectSeq(raw, LAMBDA el : IsNode(el) /\ keep(el))
      valid_ids == {nodes[i].id : i \in 1..Len(nodes)}
  IN nodes \o SelectSeq(raw, LAMBDA el : IsEdge(el) /\ el.source \in valid_ids
                                          /\ el.target \in valid_ids)

(***************************************************************************)
(* The inputs of the model                                                 *)
(***************************************************************************)
\* references in one body
MaxRefs == 2

\* files, declarations and references in the whole tree
MaxSize == 5

MaxRuns == 2

PyA == Root \o <<"a.py">>

PyLibA == Root \o <<"lib", "a.py">>

PyB == Root \o <<"b.py">>

CppM == Root \o <<"m.cpp">>

HdrU == Root \o <<"u.h">>

Notes == Root \o <<"notes.txt">>

Paths == {PyA, PyLibA, PyB, CppM, HdrU, Notes}

\* Trees are taken up to the renaming of files: lib/a.py is the second file
\* called a.py, b.py the second Python basename, u.h the second C++ file.
\* notes.txt is read by the single-file branch only, which reads nothing
\* else, so it stands alone.
PathSets ==
  {D \in SUBSET Paths :
     /\ D # {}
     /\ PyLibA \in D => PyA \in D
     /\ PyB \in D => PyA \in D
     /\ HdrU \in D => CppM \in D
     /\ Notes \in D => D = {Notes}}

\* The vocabulary of the trees: the names declared and the references made.
\* A call of g loads (Python) or mentions (C++) the name g as well.
Vocab ==
  [vars    |-> {<<"g">>},
   funcs   |-> {<<"f">>, <<"g">>},
   classes |-> {<<"C">>},
   refs    |-> {CallRef(<<"g">>), ReadRef(<<"g">>)},
   crefs   |-> {CallRef(<<"g">>)}]

\* The vocabulary of the trees that are analyzed twice: two variables, so that
\* the set found_vars has more than one iteration order, and the expression
\* X.g, which names both.
VocabRerun ==
  [vars    |-> {<<"g">>, <<"X">>},
   funcs   |-> {<<"f">>},
   classes |-> {},
   refs    |-> {ReadRef(<<"X", "g">>)},
   crefs   |-> {}]

\* the variables and functions of each size (a declaration counts 1, each
\* reference of its body 1)
LeafOfSize(v, s) ==
  (IF s = 1 THEN {VarItem(n) : n \in v.vars} ELSE {})
  \cup (IF s - 1 \in 0..MaxRefs
        THEN {FuncItem(n, b) : n \in v.funcs, b \in [1..(s - 1) -> v.refs]}
        ELSE {})

RECURSIVE SeqsOfSize(_, _)
\* the sequences of total size s of items drawn from of[1], of[2], ...
SeqsOfSize(of, s) ==
  IF s = 0 THEN {<<>>}
  ELSE UNION {{<<i>> \o c : i \in of[k], c \in SeqsOfSize(of, s - k)} : k \in 1..s}

\* a variable, a function, or a class: the calls of its body, then its
\* variables and functions
ItemsOfSize(v, s, max) ==
  LET leaf == [k \in 1..max |-> LeafOfSize(v, k)]
  IN leaf[s]
     \cup UNION {{ClassItem(n, b, m) : n \in v.classes, b \in [1..r -> v.crefs],
                                       m \in SeqsOfSize(leaf, s - 1 - r)}
                 : r \in 0..(IF s - 1 < MaxRefs THEN s - 1 ELSE MaxRefs)}

File(ok, content) == [ok |-> ok, content |-> content]

\* the files of each size; a file that cannot be read or parsed is modelled
\* without content
FilesOfSize(v, max) ==
  LET items == [k \in 1..max |-> ItemsOfSize(v, k, max)]
  IN [s \in 0..max |->
        {File(TRUE, c) : c \in SeqsOfSize(items, s)}
        \cup (IF s = 0 THEN {File(FALSE, <<>>)} ELSE {})]

RECURSIVE TreesOver(_, _, _)
\* the trees with the files D, of at most the given size
TreesOver(files, D, budget) ==
  IF D = {} THEN {<<>>}
  ELSE LET q == CHOOSE q \in D : TRUE
       IN UNION {{(q :> x) @@ rest : x \in files[s],
                                     rest \in TreesOver(files, D \ {q}, budget - s)}
                 : s \in 0..budget}

Trees(v, max) ==
  LET files == FilesOfSize(v, max)
  IN UNION {TreesOver(files, D, max - Cardinality(D)) :
              D \in {D \in PathSets : Cardinality(D) < max}}

FileSystems == Trees(Vocab, MaxSize)

FileSystemsRerun == Trees(VocabRerun, MaxSize)

FilterTypes == {"function", "variable", "class", "dunder"}

(***************************************************************************)
(* The state machine                                                       *)
(***************************************************************************)
Start(trees) ==
  /\ fs \in trees
  /\ path = Root
  /\ allowed_langs = {}
  /\ pc = "idle"
  /\ todo = {}
  /\ py = NewPy
  /\ cpp = NewCpp
  /\ all_elems = EmptyDict
  /\ eid = NoParent
  /\ elements = <<>>
  /\ added_edges = {}
  /\ prev = {}
  /\ run = 0
  /\ graph = <<>>
  /\ unit = NoUnit

Init == Start(FileSystems)

InitRerun == Start(FileSystemsRerun)

\* the entry of analyze: fresh analyzers, and the files its loops will visit
Enter(p, langs) ==
  /\ path' = p
  /\ allowed_langs' = langs
  /\ todo' = Qualifying(fs, p, langs)
  /\ py' = NewPy
  /\ cpp' = NewCpp
  /\ all_elems' = EmptyDict
  /\ eid' = NoParent
  /\ elements' = <<>>
  /\ added_edges' = {}
  /\ run' = run + 1
  /\ pc' = "scan"
  /\ UNCHANGED <<unit, fs, graph>>

\* manager.analyze(path, allowed_langs) is called
Analyze(p, langs) ==
  /\ pc = "idle"
  /\ Enter(p, langs)
  /\ prev' = prev

\* the same call is made again on the unchanged files
Reanalyze ==
  /\ pc = "done"
  /\ run < MaxRuns
  /\ Enter(path, allowed_langs)
  /\ prev' = Range(elements)

Dir(p) == SubSeq(p, 1, Len(p) - 1)

\* glob with "**" yields the files of a directory before those of the
\* directories below it; the files of one directory come in any order
Below(f, q) ==
  /\ Len(Dir(q)) < Len(Dir(f))
  /\ SubSeq(Dir(f), 1, Len(Dir(q))) = Dir(q)

\* py.parse_file(f): the single-file branch, or one turn of the *.py loop
ParsePy(f) ==
  /\ pc = "scan"
  /\ f \in todo
  /\ Ext(f) = "py"
  /\ \A q \in todo : Ext(q) = "py" => ~Below(f, q)
  /\ py' = PyParseFile(py, Basename(f), fs[f].ok, fs[f].content)
  /\ todo' = todo \ {f}
  /\ UNCHANGED <<unit, fs, path, allowed_langs, pc, cpp, all_elems, eid, elements,
                 added_edges, prev, run, graph>>

\* the names the var_pattern matches in a text
VarsIn(content) ==
  LET vs == Matches(content, "var") IN {Last(vs[i].n) : i \in 1..Len(vs)}

\* cpp.parse_file(f): the single-file branch, or one turn of the loops over
\* the C++ extensions, which start when the *.py loop is over
ParseCpp(f, vorder) ==
  /\ pc = "scan"
  /\ f \in todo
  /\ IF path = Root
     THEN /\ \A q \in todo : Ext(q) # "py"
          /\ \A q \in todo : ExtRank(Ext(f)) <= ExtRank(Ext(q))
          /\ \A q \in todo : Ext(q) = Ext(f) => ~Below(f, q)
     ELSE Ext(f) # "py"
  /\ cpp' = CppParseFile(cpp, Basename(f), fs[f].ok, fs[f].content, vorder)
  /\ todo' = todo \ {f}
  /\ UNCHANGED <<unit, fs, path, allowed_langs, pc, py, all_elems, eid, elements,
                 added_edges, prev, run, graph>>

\* the rest of analyze once the loops over the files are over: the merge of
\* the two dicts, the node loop, the call loop, the variable loop, the return
Merge ==
  /\ pc = "scan"
  /\ todo = {}
  /\ LET d == DictMerge(py.elements, cpp.elements)
         e == IF d.order = <<>> THEN NoParent ELSE Last(d.order)
         nodes == NodeRecords(d.order, d)
         st1 == CallEdges(<<nodes, {}>>, py.calls \o cpp.calls, d)
         st2 == VarEdges(st1, py.var_usages \o cpp.var_usages, d, e)
     IN /\ all_elems' = d
        /\ eid' = e
        /\ elements' = st2[1]
        /\ added_edges' = st2[2]
  /\ pc' = "done"
  /\ UNCHANGED <<unit, fs, path, allowed_langs, todo, py, cpp, prev, run, graph>>

\* load_and_filter: its call of analyze is the call above with both languages
\* allowed; this is the rest of the handler
LoadAndFilter(filters) ==
  /\ pc = "done"
  /\ allowed_langs = Langs
  /\ graph' = FilterElements(elements, filters)
  /\ pc' = "shown"
  /\ UNCHANGED <<unit, fs, path, allowed_langs, todo, py, cpp, all_elems, eid, elements,
                 added_edges, prev, run>>

Next ==
  \/ \E p \in {Root} \cup DOMAIN fs, langs \in SUBSET Langs : Analyze(p, langs)
  \/ \E f \in DOMAIN fs : ParsePy(f)
  \/ \E f \in DOMAIN fs : \E vorder \in Perms(VarsIn(fs[f].content)) : ParseCpp(f, vorder)
  \/ Merge
  \/ \E filters \in SUBSET FilterTypes : LoadAndFilter(filters)

Spec == Init /\ [][Next]_vars

\* analyze called again and again on the same tree
NextRerun == Next \/ Reanalyze

SpecRerun == InitRerun /\ [][NextRerun]_vars

(***************************************************************************)
(* Vocabulary of the properties                                            *)
(***************************************************************************)
\* analyze has returned: elements is its result
Returned == pc \in {"done", "shown"}

\* the files the call has parsed
Scanned == Qualifying(fs, path, allowed_langs)

AllCalls == py.calls \o cpp.calls

AllVars == py.var_usages \o cpp.var_usages

NodesOf(list) == {el \in Range(list) : IsNode(el)}

NodeIds(list) == {el.id : el \in NodesOf(list)}

IsCallEdge(el) == IsEdge(el) /\ el.classes \in {"cross-file", "internal"}

IsVarEdge(el) == IsEdge(el) /\ el.classes = "var-usage"

\* the positions of the list that hold an edge source -> target of a class
EdgesAt(list, classes, source, target) ==
  {k \in 1..Len(list) : /\ IsEdge(list[k])
                        /\ list[k].classes \in classes
                        /\ list[k].source = source
                        /\ list[k].target = target}

\* the position of a key in the merged dict
Pos(id) == CHOOSE i \in 1..Len(all_elems.order) : all_elems.order[i] = id

\* the elements of file f: what its analyzer registers for it on its own
OwnElements(f) ==
  IF Ext(f) = "py"
  THEN PyParseFile(NewPy, Basename(f), fs[f].ok, fs[f].content).elements
  ELSE CppParseFile(NewCpp, Basename(f), fs[f].ok, fs[f].content, <<>>).elements

\* a scanned file of the basename of q registers a variable under the id
\* that q gives to its declaration d
TakenByVariable(q, d) ==
  LET id == <<Basename(q)>> \o d.n
  IN \E r \in Scanned :
       /\ Basename(r) = Basename(q)
       /\ id \in Keys(OwnElements(r))
       /\ OwnElements(r).data[id].type = "variable"

(***************************************************************************)
(* C1                                                                      *)
(***************************************************************************)
\* the merged variable elements a usage (source, name) refers to
UsageTargets(usage) ==
  {tid \in Keys(all_elems) :
     /\ all_elems.data[tid].type = "variable"
     /\ all_elems.data[tid].name = <<usage[2]>>
     /\ all_elems.data[tid].lang = all_elems.data[usage[1]].lang
     /\ Head(tid) = Head(usage[1])}

\* C1: for every collected variable usage (source, name) and every variable
\* element of that name, of the source's language and of the same root file
\* basename, the returned list holds exactly one variable-usage edge
\* source -> variable.
C1_OneVarEdgePerPair ==
  Returned =>
    \A i \in 1..Len(AllVars) : \A tid \in UsageTargets(AllVars[i]) :
      Cardinality(EdgesAt(elements, {"var-usage"}, AllVars[i][1], tid)) = 1

(***************************************************************************)
(* C2                                                                      *)
(***************************************************************************)
\* the merged elements a call reference (source, callee) resolves to
CallTargetsOf(call) ==
  {tid \in Keys(all_elems) :
     /\ all_elems.data[tid].name = <<call[2]>>
     /\ all_elems.data[tid].type # "variable"
     /\ all_elems.data[tid].lang = all_elems.data[call[1]].lang}

\* C2: the returned list holds at most one call edge per ordered pair
\* (source, target), however many call references of the source resolve to
\* the target.
C2_AtMostOneCallEdge ==
  Returned =>
    \A i, j \in 1..Len(elements) :
      /\ IsCallEdge(elements[i])
      /\ IsCallEdge(elements[j])
      /\ elements[i].source = elements[j].source
      /\ elements[i].target = elements[j].target
      => i = j

\* two call references of one source resolve to one target, and the edge is
\* there
C2_Witness ==
  /\ Returned
  /\ \E i, j \in 1..Len(AllCalls) :
       /\ i < j
       /\ AllCalls[i][1] = AllCalls[j][1]
       /\ \E tid \in CallTargetsOf(AllCalls[i]) \cap CallTargetsOf(AllCalls[j]) :
            EdgesAt(elements, {"cross-file", "internal"}, AllCalls[i][1], tid) # {}

(***************************************************************************)
(* C3                                                                      *)
(***************************************************************************)
\* C3: the (source, target) pairs of the returned call edges are exactly the
\* pairs (source, t) with a collected call reference (source, callee) and t a
\* merged element named callee, not a variable, of the source's language;
\* the callee may be declared before or after the caller.
C3_CallEdgesAreTheMatches ==
  Returned =>
    {<<el.source, el.target>> : el \in {x \in Range(elements) : IsCallEdge(x)}}
      = UNION {{<<AllCalls[i][1], tid>> : tid \in CallTargetsOf(AllCalls[i])}
               : i \in 1..Len(AllCalls)}

\* a function of a C++ class calls a sibling registered after it, and a
\* function of a file calls one registered before it
C3_Witness ==
  /\ Returned
  /\ \E el \in Range(elements) :
       /\ IsCallEdge(el)
       /\ all_elems.data[el.source].lang = "cpp"
       /\ all_elems.data[el.source].parent = all_elems.data[el.target].parent
       /\ Len(el.source) = 3
       /\ Pos(el.source) < Pos(el.target)
  /\ \E el \in Range(elements) :
       /\ IsCallEdge(el)
       /\ Head(el.source) = Head(el.target)
       /\ Pos(el.target) < Pos(el.source)

(***************************************************************************)
(* C4                                                                      *)
(***************************************************************************)
\* the language whose loop of analyze globs an extension
LangOfExt(e) ==
  IF e = "py" THEN "python" ELSE IF e \in Range(CppExts) THEN "cpp" ELSE "none"

\* the functions declared at the top level of a file's text
TopFuncs(q) ==
  {fs[q].content[i] : i \in {j \in 1..Len(fs[q].content) : fs[q].content[j].k = "func"}}

\* a function or a class named g is declared somewhere in file q
Declares(q, g) ==
  \E it \in Range(Matches(fs[q].content, "func")) \cup Range(Matches(fs[q].content, "class")) :
    Last(it.n) = g

\* the body of the function calls g
CallsName(it, g) == \E r \in Range(it.refs) : r.k = "call" /\ Callee(r) = g

\* function c of file p calls function d, which file q declares and no other
\* scanned file does; p and q are two readable files of one language
CallAcross(p, q, c, d) ==
  /\ p # q
  /\ fs[p].ok /\ fs[q].ok
  /\ LangOfExt(Ext(p)) = LangOfExt(Ext(q))
  /\ c \in TopFuncs(p)
  /\ d \in TopFuncs(q)
  /\ CallsName(c, Last(d.n))
  /\ \A r \in Scanned \ {q} : ~Declares(r, Last(d.n))

\* the tag of every call edge compares the first segments of its two ids
TagByRoot ==
  \A el \in Range(elements) :
    IsCallEdge(el) => (el.classes = "cross-file" <=> Head(el.source) # Head(el.target))

\* the functions declared at the top level of the scanned files
ScannedFuncs == UNION {TopFuncs(q) : q \in Scanned}

\* C4 as stated: a call edge is tagged cross-file exactly when the first
\* segments of its source and target ids differ, and internal otherwise; a
\* function f of file a calling g, defined only in another file b of the
\* same language, yields an edge f -> g tagged cross-file.
C4_CrossFileTag_Stated ==
  Returned =>
    /\ TagByRoot
    /\ \A p, q \in Scanned : \A c, d \in ScannedFuncs :
         CallAcross(p, q, c, d) =>
           EdgesAt(elements, {"cross-file"},
                   <<Basename(p)>> \o c.n, <<Basename(q)>> \o d.n) # {}

\* C4, amended: a call edge is tagged cross-file exactly when the first
\* segments of its source and target ids differ, and internal otherwise; a
\* function f of file a calling g, defined only in another file b of the
\* same language, yields an edge f -> g tagged cross-file when the basename
\* of b is not that of a and no scanned file of b's basename registers a
\* variable under the id of g.
C4_CrossFileTag ==
  Returned =>
    /\ TagByRoot
    /\ \A p, q \in Scanned : \A c, d \in ScannedFuncs :
         /\ CallAcross(p, q, c, d)
         /\ Basename(p) # Basename(q)
         /\ ~TakenByVariable(q, d)
         => EdgesAt(elements, {"cross-file"},
                    <<Basename(p)>> \o c.n, <<Basename(q)>> \o d.n) # {}

\* f of one file calls g of a file of another basename, and the edge is there
C4_Witness ==
  /\ Returned
  /\ \E p, q \in Scanned : \E c, d \in ScannedFuncs :
       /\ CallAcross(p, q, c, d)
       /\ Basename(p) # Basename(q)
       /\ ~TakenByVariable(q, d)
       /\ EdgesAt(elements, {"cross-file"},
                  <<Basename(p)>> \o c.n, <<Basename(q)>> \o d.n) # {}

(***************************************************************************)
(* C5                                                                      *)
(***************************************************************************)
\* the node record of an id in a returned list
NodeOf(list, id) == CHOOSE n \in NodesOf(list) : n.id = id

\* C5: every returned variable-usage edge has a target of kind variable, and
\* its two ends carry the same language and root segments of the same file
\* basename.
C5_VarEdgeScope ==
  Returned =>
    \A el \in Range(elements) :
      IsVarEdge(el) =>
        /\ el.source \in NodeIds(elements)
        /\ el.target \in NodeIds(elements)
        /\ NodeOf(elements, el.target).type = "variable"
        /\ NodeOf(elements, el.source).lang = NodeOf(elements, el.target).lang
        /\ RootBasename(el.source) = RootBasename(el.target)

\* a variable-usage edge is returned by a scan of several files
C5_Witness ==
  /\ Returned
  /\ \E el \in Range(elements) : IsVarEdge(el)
  /\ Cardinality({n \in NodesOf(elements) : n.type = "file"}) > 1

(***************************************************************************)
(* C6                                                                      *)
(***************************************************************************)
\* both ends of every edge of the list are ids of its node records
Closed(list) ==
  \A el \in Range(list) :
    IsEdge(el) => el.source \in NodeIds(list) /\ el.target \in NodeIds(list)

\* C6: in the list analyze returns, and in the list load_and_filter returns
\* for every choice of kind filters, the source and the target of each edge
\* are ids of node records of that same list.
C6_EdgesHaveEndpoints ==
  /\ Returned => Closed(elements)
  /\ pc = "shown" => Closed(graph)

\* the filters have removed the target of an edge whose source they kept
C6_Witness ==
  /\ pc = "shown"
  /\ \E el \in Range(elements) :
       /\ IsEdge(el)
       /\ el.source \in NodeIds(graph)
       /\ el.target \notin NodeIds(graph)

(***************************************************************************)
(* C7                                                                      *)
(***************************************************************************)
\* C7: a file that cannot be read or parsed contributes no node record to
\* the result, not even a file node: when every scanned file of a basename
\* has failed, no returned node has that basename for root segment.
C7_FailedFileContributesNothing ==
  Returned =>
    \A f \in Scanned :
      (\A q \in Scanned : Basename(q) = Basename(f) => ~fs[q].ok) =>
        \A n \in NodesOf(elements) : Head(n.id) # Basename(f)

(***************************************************************************)
(* C8                                                                      *)
(***************************************************************************)
\* the node records of the elements of file f
OwnRecords(f) == Range(NodeRecords(OwnElements(f).order, OwnElements(f)))

\* what the merge and the two resolution loops index without a test: the
\* source of every reference is a key of the merged dict, and eid is bound
\* when the variable loop reads it
ResolvableRefs ==
  pc = "scan" =>
    LET d == DictMerge(py.elements, cpp.elements)
    IN /\ \A i \in 1..Len(AllCalls) : AllCalls[i][1] \in Keys(d)
       /\ \A i \in 1..Len(AllVars) : AllVars[i][1] \in Keys(d)
       /\ AllVars # <<>> => d.order # <<>>

SomeFileFailed == \E f \in Scanned : ~fs[f].ok

\* C8 as stated: when some input files fail, analyze still completes without
\* raising, merge and resolution included, and returns the elements of every
\* file that did not fail.
C8_ReturnsOkFiles_Stated ==
  /\ ResolvableRefs
  /\ Returned /\ SomeFileFailed =>
       \A f \in Scanned : fs[f].ok => OwnRecords(f) \subseteq NodesOf(elements)

\* C8, amended: when some input files fail, analyze still completes without
\* raising, merge and resolution included, and returns a node for every
\* element id of every file that did not fail, which is the file's own
\* element when no other scanned file has its basename.
C8_ReturnsOkFiles ==
  /\ ResolvableRefs
  /\ Returned /\ SomeFileFailed =>
       \A f \in Scanned :
         fs[f].ok =>
           /\ Keys(OwnElements(f)) \subseteq NodeIds(elements)
           /\ (\A q \in Scanned \ {f} : Basename(q) # Basename(f))
                => OwnRecords(f) \subseteq NodesOf(elements)

\* a file failed, another declares elements, all of them returned, and the
\* resolution has produced an edge
C8_Witness ==
  /\ Returned
  /\ SomeFileFailed
  /\ \E f \in Scanned :
       /\ fs[f].ok
       /\ Cardinality(OwnRecords(f)) > 1
       /\ OwnRecords(f) \subseteq NodesOf(elements)
  /\ \E el \in Range(elements) : IsEdge(el)

(***************************************************************************)
(* C9                                                                      *)
(***************************************************************************)
\* C9: whatever the path, a file or a directory, and the enabled languages,
\* every returned node carries an enabled language, and a file is analyzed
\* by the analyzer of a language only if its extension is one of that
\* language's.
C9_OnlyEnabledAnalyzers ==
  Returned =>
    \A n \in NodesOf(elements) :
      /\ n.lang \in allowed_langs
      /\ n.type = "file" => LangOfExt(ExtOf[Head(n.id)]) = n.lang

(***************************************************************************)
(* C10                                                                     *)
(***************************************************************************)
\* C10: analyze run again on the unchanged files returns the same set of
\* node records and the same set of edge records, whatever the order of the
\* file scan and of the iteration of found_vars.
C10_SameResultOnRerun ==
  pc = "done" /\ run >= 2 => Range(elements) = prev

(***************************************************************************)
(* C11                                                                     *)
(***************************************************************************)
\* a function whose body declares further elements
NestingFunc(n, items) == [k |-> "func", n |-> n, refs |-> <<>>, items |-> items]

\* files of one function, plain or dunder-named, with at most one function,
\* dunder or class declared in its body, followed or not by a variable
NestedFiles ==
  {File(TRUE, <<NestingFunc(n, in)>> \o rest) :
     n \in {<<"f">>, <<"__init__">>},
     in \in {<<>>, <<FuncItem(<<"g">>, <<>>)>>, <<FuncItem(<<"__init__">>, <<>>)>>,
             <<ClassItem(<<"C">>, <<>>, <<>>)>>},
     rest \in {<<>>, <<VarItem(<<"g">>)>>}}

FileSystemsNested ==
  {(PyA :> x) : x \in NestedFiles}
  \cup {(PyA :> x) @@ (CppM :> y) : x \in NestedFiles, y \in NestedFiles}

InitNested == Start(FileSystemsNested)

\* analyze and load_and_filter over files with nested declarations
SpecNested == InitNested /\ [][Next]_vars

\* C11: in the list load_and_filter returns, for every choice of kind
\* filters, a node record carries a parent field only if a node of that id
\* is in the same list; a node whose parent was filtered out is kept without
\* the field.
C11_ParentIsRetained ==
  pc = "shown" =>
    \A n \in NodesOf(graph) : "parent" \in DOMAIN n => n.parent \in NodeIds(graph)

(***************************************************************************)
(* C12                                                                     *)
(***************************************************************************)
\* C12: every returned call edge has a source of kind function, dunder or
\* entry_point and a target whose kind is not variable.
C12_CallEdgeKinds ==
  Returned =>
    \A el \in Range(elements) :
      IsCallEdge(el) =>
        /\ NodeOf(elements, el.source).type \in {"function", "dunder", "entry_point"}
        /\ NodeOf(elements, el.target).type # "variable"

(***************************************************************************)
(* C13                                                                     *)
(***************************************************************************)
\* C13: no two node records of the returned list have the same id, whatever
\* the input files, files of one basename in different directories and
\* declarations of one scope-qualified name included.
C13_NodeIdsUnique ==
  Returned =>
    \A i, j \in 1..Len(elements) :
      IsNode(elements[i]) /\ IsNode(elements[j]) /\ elements[i].id = elements[j].id
        => i = j

\* two scanned files of one basename declare an element of the same id, and
\* a file declares one name twice
C13_Witness ==
  /\ Returned
  /\ \E p, q \in Scanned :
       /\ p # q
       /\ Basename(p) = Basename(q)
       /\ \E id \in Keys(OwnElements(p)) \cap Keys(OwnElements(q)) :
            Len(id) > 1 /\ id \in NodeIds(elements)
  /\ \E p \in Scanned :
       \E i, j \in 1..Len(fs[p].content) :
         i < j /\ fs[p].content[i].n = fs[p].content[j].n

(***************************************************************************)
(* Functions and callbacks run on their own                                *)
(***************************************************************************)
\* the variables of analyze and load_and_filter
analysis == <<fs, path, allowed_langs, pc, todo, py, cpp, all_elems, eid, elements,
              added_edges, prev, run, graph>>

\* no call of analyze is made; the unit starts in one of the given states
StartUnit(units) ==
  /\ fs = <<>>
  /\ path = Root
  /\ allowed_langs = {}
  /\ pc = "idle"
  /\ todo = {}
  /\ py = NewPy
  /\ cpp = NewCpp
  /\ all_elems = EmptyDict
  /\ eid = NoParent
  /\ elements = <<>>
  /\ added_edges = {}
  /\ prev = {}
  /\ run = 0
  /\ graph = <<>>
  /\ unit \in units

\* the length of the texts
MaxText == 4

\* a character of a word, a blank, a line break
LineChars == {"x", " ", "\n"}

TextsOver(chars, max) == UNION {[1..n -> chars] : n \in 0..max}

RECURSIVE splitlines(_)
\* str.splitlines: the lines between the line breaks, without a last empty
\* line
splitlines(text) ==
  IF text = <<>> THEN <<>>
  ELSE IF \A i \in 1..Len(text) : text[i] # "\n" THEN <<text>>
  ELSE LET i == CHOOSE i \in 1..Len(text) :
                  text[i] = "\n" /\ \A j \in 1..(i - 1) : text[j] # "\n"
       IN <<SubSeq(text, 1, i - 1)>> \o splitlines(SubSeq(text, i + 1, Len(text)))

\* line.strip() is not empty
Stripped(line) == \E i \in 1..Len(line) : line[i] # " "

count_loc(code_str) == Len(SelectSeq(splitlines(code_str), Stripped))

(***************************************************************************)
(* C14                                                                     *)
(***************************************************************************)
\* the kinds of element by the way their dict is built
LocKinds == {"file", "class", "function", "variable"}

\* the dict the analyzers register for a declaration of source text code
RegisteredElement(type, code) ==
  CASE type = "file" -> [type |-> type, code |-> code]
    [] type = "variable" -> [type |-> type, code |-> code, loc |-> 1]
    [] OTHER -> [type |-> type, code |-> code, loc |-> count_loc(code)]

\* the code, type and loc of the node record of the node loop
NodeData(data) ==
  [type |-> data.type, code |-> data.code,
   loc |-> IF "loc" \in DOMAIN data THEN data.loc ELSE 0]

InitLoc ==
  StartUnit({[at |-> "source", type |-> t, code |-> c] :
               t \in LocKinds, c \in TextsOver(LineChars, MaxText)})

\* an analyzer registers the element
RegisterLoc ==
  /\ unit.at = "source"
  /\ unit' = [at |-> "element", data |-> RegisteredElement(unit.type, unit.code)]
  /\ UNCHANGED analysis

\* the node loop of analyze builds the node record
EmitLoc ==
  /\ unit.at = "element"
  /\ unit' = [at |-> "node", node |-> NodeData(unit.data)]
  /\ UNCHANGED analysis

NextLoc == RegisterLoc \/ EmitLoc

SpecLoc == InitLoc /\ [][NextLoc]_vars

\* the lines of a text that hold a character other than a blank, counted by
\* the first such character of each
NonBlankLines(text) ==
  Cardinality({i \in 1..Len(text) :
                 /\ text[i] = "x"
                 /\ \A j \in 1..(i - 1) :
                      text[j] = "x" => \E k \in j..(i - 1) : text[k] = "\n"})

\* C14: the loc of every returned node record is the number of non-blank
\* lines of the node's code.
C14_LocCountsCodeLines ==
  unit.at = "node" => unit.node.loc = NonBlankLines(unit.node.code)

(***************************************************************************)
(* C15                                                                     *)
(***************************************************************************)
\* C++ texts with an out-of-class definition A::g and calls of it
VocabQualified ==
  [vars    |-> {},
   funcs   |-> {<<"f">>, <<"A", "g">>},
   classes |-> {},
   refs    |-> {CallRef(<<"A", "g">>)},
   crefs   |-> {}]

\* a C++ file with qualified definitions, alone or beside a Python file of
\* at most one declaration
FileSystemsQualified ==
  LET cppfiles == UNION {FilesOfSize(VocabQualified, MaxSize - 1)[s] : s \in 0..(MaxSize - 1)}
      pyfiles == UNION {FilesOfSize(Vocab, 1)[s] : s \in 0..1}
  IN {(CppM :> x) : x \in cppfiles}
     \cup {(PyA :> y) @@ (CppM :> x) : y \in pyfiles, x \in cppfiles}

InitQualified == Start(FileSystemsQualified)

SpecQualified == InitQualified /\ [][Next]_vars

\* C15: the name of every element is an unqualified identifier, without
\* '::', so that a call reference, whose callee is the last segment of the
\* called name, matches the element declared under that name.
C15_NamesUnqualified ==
  Returned =>
    /\ \A n \in NodesOf(elements) : Len(n.name) = 1
    /\ \A i \in 1..Len(AllCalls) : \A tid \in Keys(all_elems) :
         /\ Last(all_elems.data[tid].name) = AllCalls[i][2]
         /\ all_elems.data[tid].type # "variable"
         /\ all_elems.data[tid].lang = all_elems.data[AllCalls[i][1]].lang
         => EdgesAt(elements, {"cross-file", "internal"}, AllCalls[i][1], tid) # {}

(***************************************************************************)
(* C16                                                                     *)
(***************************************************************************)
\* the length of the code spans
MaxCode == 6

\* (if|for|while|case|catch|except|with), character by character
counted == << <<"i", "f">>, <<"f", "o", "r">>, <<"w", "h", "i", "l", "e">>,
              <<"c", "a", "s", "e">>, <<"c", "a", "t", "c", "h">>,
              <<"e", "x", "c", "e", "p", "t">>, <<"w", "i", "t", "h">> >>

\* the characters of the code spans: letters of if and for, and the blank
CodeChars == {"i", "f", "o", "r", " "}

\* \w
IsWordChar(text, i) == i \in 1..Len(text) /\ text[i] # " "

NoBoundary(text, p) == TRUE

\* \b just before position p of the text
WordBoundary(text, p) == IsWordChar(text, p - 1) # IsWordChar(text, p)

\* the alternative of the group that matches at position p, 0 when none does
MatchAt(text, p) ==
  LET ok(k) == /\ p + Len(counted[k]) - 1 <= Len(text)
               /\ SubSeq(text, p, p + Len(counted[k]) - 1) = counted[k]
               /\ WordBoundary(text, p + Len(counted[k]))
  IN IF WordBoundary(text, p) /\ \E k \in 1..Len(counted) : ok(k)
     THEN CHOOSE k \in 1..Len(counted) : ok(k) /\ \A j \in 1..(k - 1) : ~ok(j)
     ELSE 0

RECURSIVE findall(_, _)
\* the number of matches re.findall returns, scanning from position p
findall(text, p) ==
  IF p > Len(text) THEN 0
  ELSE IF MatchAt(text, p) # 0
       THEN 1 + findall(text, p + Len(counted[MatchAt(text, p)]))
       ELSE findall(text, p + 1)

calculate_complexity(code_str) == findall(code_str, 1) + 1

\* the kinds of element by the way their complexity is set
ComplexityKinds == {"function", "entry_point", "class"}

\* the dict the analyzers register for a declaration of source text code
ElementWithComplexity(type, code) ==
  [type |-> type, code |-> code,
   complexity |-> IF type = "class" THEN 0 ELSE calculate_complexity(code)]

\* the code, type and complexity of the node record of the node loop
NodeComplexity(data) ==
  [type |-> data.type, code |-> data.code,
   complexity |-> IF "complexity" \in DOMAIN data THEN data.complexity ELSE 0]

InitComplexity ==
  StartUnit({[at |-> "source", type |-> t, code |-> c] :
               t \in ComplexityKinds, c \in TextsOver(CodeChars, MaxCode)})

\* an analyzer registers the element
RegisterComplexity ==
  /\ unit.at = "source"
  /\ unit' = [at |-> "element", data |-> ElementWithComplexity(unit.type, unit.code)]
  /\ UNCHANGED analysis

\* the node loop of analyze builds the node record
EmitComplexity ==
  /\ unit.at = "element"
  /\ unit' = [at |-> "node", node |-> NodeComplexity(unit.data)]
  /\ UNCHANGED analysis

NextComplexity == RegisterComplexity \/ EmitComplexity

SpecComplexity == InitComplexity /\ [][NextComplexity]_vars

\* the whole-word occurrences of the counted keywords in a text: the places
\* where a keyword stands with no word character on either side
WholeWords(text) ==
  {<<i, k>> \in (1..Len(text)) \X (1..Len(counted)) :
     /\ i + Len(counted[k]) - 1 <= Len(text)
     /\ \A j \in 1..Len(counted[k]) : text[i + j - 1] = counted[k][j]
     /\ i = 1 \/ text[i - 1] = " "
     /\ i + Len(counted[k]) > Len(text) \/ text[i + Len(counted[k])] = " "}

\* C16: calculate_complexity(code) is 1 plus the number of whole-word
\* occurrences of the counted keywords in code, 1 when there is none, and
\* every function, dunder and entry_point node has a complexity of at
\* least 1.
C16_ComplexityCountsKeywords ==
  unit.at = "node" /\ unit.node.type # "class" =>
    /\ unit.node.complexity = 1 + Cardinality(WholeWords(unit.node.code))
    /\ WholeWords(unit.node.code) = {} => unit.node.complexity = 1
    /\ unit.node.complexity >= 1

\* a function whose code holds a counted keyword and an if that is part of
\* a longer word
C16_Witness ==
  /\ unit.at = "node"
  /\ unit.node.type = "function"
  /\ unit.node.complexity = 2
  /\ \E i \in 1..(Len(unit.node.code) - 1) :
       /\ SubSeq(unit.node.code, i, i + 1) = <<"i", "f">>
       /\ \A k \in 1..Len(counted) : <<i, k>> \notin WholeWords(unit.node.code)

(***************************************************************************)
(* C17                                                                     *)
(***************************************************************************)
\* the length of the Python texts
MaxDecls == 3

\* Python texts of assignments to g and of functions f that read g
OrderTexts(max) ==
  UNION {[1..n -> {VarItem(<<"g">>), FuncItem(<<"f">>, <<ReadRef(<<"g">>)>>)}]
         : n \in 0..max}

\* two Python files, with or without a C++ file beside them
FileSystemsOrder ==
  LET two == {(PyA :> File(TRUE, x)) @@ (PyB :> File(TRUE, y)) :
                x \in OrderTexts(MaxDecls - 1), y \in OrderTexts(MaxDecls)}
  IN two \cup {t @@ (CppM :> File(TRUE, <<VarItem(<<"g">>)>>)) : t \in two}

InitOrder == Start(FileSystemsOrder)

SpecOrder == InitOrder /\ [][Next]_vars

\* the Python files whose pass is over, of a basename no other scanned file
\* has
PassedPy ==
  {p \in Scanned \ todo :
     /\ pc # "idle"
     /\ Ext(p) = "py"
     /\ fs[p].ok
     /\ \A q \in Scanned \ {p} : Basename(q) # Basename(p)}

\* the module-level assignments to X in a text, by position
AssignsAt(content, X) ==
  {j \in 1..Len(content) : content[j].k = "var" /\ content[j].n = <<X>>}

\* the body of the function reads the name X
ReadsName(it, X) == \E r \in Range(it.refs) : LoadedName(r) = X

\* C17: in the pass of the Python analyzer over one file, a function h that
\* reads X gets the reference (h, X) if a module-level assignment to X
\* precedes the definition of h, and does not get it if the only
\* module-level assignments to X of the file come after the definition.
C17_UsageFollowsAssignment ==
  \A p \in PassedPy : \A i \in 1..Len(fs[p].content) : \A X \in {"g"} :
    LET h == fs[p].content[i]
        ref == <<<<Basename(p)>> \o h.n, X>>
        at == AssignsAt(fs[p].content, X)
    IN h.k = "func" /\ ReadsName(h, X) =>
         /\ (\E j \in at : j < i) => ref \in Range(py.var_usages)
         /\ (at # {} /\ \A j \in at : j > i)
            /\ (\A k \in 1..Len(fs[p].content) : fs[p].content[k].n = h.n => k = i)
            => ref \notin Range(py.var_usages)

(***************************************************************************)
(* C18                                                                     *)
(***************************************************************************)
\* the length of the texts extract_body scans
MaxBody == 6

BraceChars == {"{", "}", "x"}

\* text[i], with the indices of the code, which start at 0
CharAt(text, i) == text[i + 1]

\* text[a:b]
Slice(text, a, b) == SubSeq(text, a + 1, b)

\* a scan in which the first closing brace ends the body
balanceFlat(balance, ch) ==
  IF ch = "{" THEN 1 ELSE IF ch = "}" THEN 0 ELSE balance

\* the if / elif of the loop body
balanceAfter(balance, ch) ==
  IF ch = "{" THEN balance + 1 ELSE IF ch = "}" THEN balance - 1 ELSE balance

InitBody ==
  StartUnit({u \in {[at |-> "loop", text |-> t, start |-> s, balance |-> 0, idx |-> s] :
                      t \in TextsOver(BraceChars, MaxBody), s \in 0..(MaxBody - 1)} :
               u.start < Len(u.text) /\ CharAt(u.text, u.start) = "{"})

\* one turn of the while loop, up to the return inside it
ExtractTurn ==
  /\ unit.at = "loop"
  /\ unit.idx < Len(unit.text)
  /\ LET balance == balanceAfter(unit.balance, CharAt(unit.text, unit.idx))
         idx == unit.idx + 1
     IN unit' = IF balance = 0
                THEN [at |-> "returned", text |-> unit.text, start |-> unit.start,
                      body |-> Slice(unit.text, unit.start + 1, idx - 1), end |-> idx]
                ELSE [unit EXCEPT !.balance = balance, !.idx = idx]
  /\ UNCHANGED analysis

\* the loop is left at the end of the text
ExtractEnd ==
  /\ unit.at = "loop"
  /\ unit.idx >= Len(unit.text)
  /\ unit' = [at |-> "returned", text |-> unit.text, start |-> unit.start,
              body |-> <<>>, end |-> unit.idx]
  /\ UNCHANGED analysis

NextBody == ExtractTurn \/ ExtractEnd

\* the call runs on: a turn that can be taken is taken
SpecBody == InitBody /\ [][NextBody]_vars /\ WF_vars(NextBody)

\* the nesting depth at index i, counted from the brace at index start
DepthAt(text, start, i) ==
  Cardinality({j \in start..i : CharAt(text, j) = "{"})
  - Cardinality({j \in start..i : CharAt(text, j) = "}"})

\* the indices at which the depth is back to zero
Closings(text, start) ==
  {i \in start..(Len(text) - 1) : DepthAt(text, start, i) = 0}

\* what the claim says of a return value
BodyIsTheMatchedSpan ==
  unit.at = "returned" =>
    IF Closings(unit.text, unit.start) # {}
    THEN LET m == CHOOSE i \in Closings(unit.text, unit.start) :
                    \A j \in Closings(unit.text, unit.start) : i <= j
         IN /\ unit.end - 1 = m
            /\ unit.body = [k \in 1..(m - unit.start - 1) |->
                              CharAt(unit.text, unit.start + k)]
    ELSE unit.body = <<>> /\ unit.end = Len(unit.text)

\* C18: for every text and every index start with text[start] = '{',
\* extract_body terminates and returns (body, end) where end - 1 is the
\* smallest index at which the nesting depth counted from start is back to
\* zero and body is the text strictly between the two braces; when the depth
\* is never back to zero it returns the empty body and end = len(text).
C18_ExtractBody == []BodyIsTheMatchedSpan /\ <>(unit.at = "returned")

\* a body that holds a nested pair of braces, in a text that goes on before
\* and after it
C18_Witness ==
  /\ unit.at = "returned"
  /\ unit.start > 0
  /\ unit.end < Len(unit.text)
  /\ \E k \in 1..Len(unit.body) : unit.body[k] = "{"

(***************************************************************************)
(* C19                                                                     *)
(***************************************************************************)
\* the readable files the C++ analyzer has parsed
ScannedCpp ==
  {p \in Scanned : fs[p].ok /\ (IF path = Root THEN Ext(p) \in Range(CppExts)
                                ELSE Ext(p) # "py")}

\* the kinds of the elements registered for functions
FunctionKinds == {"function", "dunder", "entry_point"}

\* C19: in the C++ analyzer a function declared in the body of a class
\* yields one function element, whose parent is that class, and is never
\* registered as a direct child of the file as well; a function declared
\* outside every class has the file for parent.
C19_OneElementPerFunction ==
  Returned =>
    \A p \in ScannedCpp : \A c \in Range(fs[p].content) :
      /\ c.k = "func" =>
           /\ <<Basename(p)>> \o c.n \in NodeIds(elements)
           /\ NodeOf(elements, <<Basename(p)>> \o c.n).parent = <<Basename(p)>>
      /\ c.k = "class" =>
           \A m \in Range(c.items) :
             m.k = "func" =>
               /\ <<Basename(p)>> \o c.n \o m.n \in NodeIds(elements)
               /\ NodeOf(elements, <<Basename(p)>> \o c.n \o m.n).parent
                    = <<Basename(p)>> \o c.n
               /\ (\A d \in Range(fs[p].content) : d.k = "func" => d.n # m.n)
                  => \A n \in NodesOf(elements) :
                       n.id = <<Basename(p)>> \o m.n => n.type \notin FunctionKinds

(***************************************************************************)
(* main_interaction: the navigation history                                *)
(***************************************************************************)
\* the longest history the model lets grow
MaxHistory == 4

\* node ids as the words a substring test can find in them
NavIds == {<<"a", ".py">>, <<"b", ".py">>, <<"btn-back", ".py">>}

\* tap_node is None
NoNode == <<>>

\* ctx.triggered[0]['prop_id'] of each input of the callback
SelectedProp == <<"code-graph", ".", "selectedNodeData">>
TapEdgeProp == <<"code-graph", ".", "tapEdgeData">>
TapNodeProp == <<"code-graph", ".", "tapNodeData">>
SearchProp(tid) == <<"{index:">> \o tid \o <<",type:", "search-item", "}", ".", "n_clicks">>
BackProp == <<"btn-back", ".", "n_clicks">>
FwdProp == <<"btn-fwd", ".", "n_clicks">>
SettingProp == <<"setting-", "node-opacity", ".", "value">>

\* word in prop_id
HasWord(word, prop_id) == \E i \in 1..Len(prop_id) : prop_id[i] = word

\* list[i] of Python, i counted from 0 and from the end when negative
PyIndex(list, i) == IF i < 0 THEN list[Len(list) + i + 1] ELSE list[i + 1]

\* list[:k] of Python
PyPrefix(list, k) ==
  IF k < 0 THEN SubSeq(list, 1, Len(list) + k)
  ELSE SubSeq(list, 1, IF k < Len(list) THEN k ELSE Len(list))

\* every visit is entered
NewEntryAlways(history, hist_idx, tid) == TRUE

\* not history or history[hist_idx] != tid
NewEntry(history, hist_idx, tid) ==
  history = <<>> \/ PyIndex(history, hist_idx) # tid

\* if not history or history[hist_idx] != tid:
\*     history = history[:hist_idx+1] + [tid]; hist_idx += 1
Visit(history, hist_idx, tid) ==
  IF NewEntry(history, hist_idx, tid)
  THEN [history |-> Append(PyPrefix(history, hist_idx + 1), tid), hist_idx |-> hist_idx + 1]
  ELSE [history |-> history, hist_idx |-> hist_idx]

\* the history and the index main_interaction returns
main_interaction(sel_nodes, tap_edge, tap_node, prop_id, triggered_id, history, hist_idx) ==
  IF HasWord("tapNodeData", prop_id) /\ tap_node = NoNode
  THEN [history |-> history, hist_idx |-> hist_idx]
  ELSE IF HasWord("btn-back", prop_id) /\ hist_idx > 0
  THEN [history |-> history, hist_idx |-> hist_idx - 1]
  ELSE IF HasWord("btn-fwd", prop_id) /\ hist_idx < Len(history) - 1
  THEN [history |-> history, hist_idx |-> hist_idx + 1]
  ELSE IF HasWord("search-item", prop_id)
  THEN Visit(history, hist_idx, triggered_id)
  ELSE IF HasWord("tapEdgeData", prop_id) /\ tap_edge
  THEN [history |-> history, hist_idx |-> hist_idx]
  ELSE IF HasWord("selectedNodeData", prop_id) /\ sel_nodes # <<>>
  THEN Visit(history, hist_idx, Last(sel_nodes))
  ELSE [history |-> history, hist_idx |-> hist_idx]

\* the stores of the layout: history-store data=[], history-index data=-1
InitNav ==
  StartUnit({[at |-> "nav", history |-> <<>>, hist_idx |-> -1, prop_id |-> <<>>]})

\* one run of the callback; its two last outputs go back into the stores
Triggered(sel_nodes, tap_edge, tap_node, prop_id, triggered_id) ==
  LET out == main_interaction(sel_nodes, tap_edge, tap_node, prop_id, triggered_id,
                              unit.history, unit.hist_idx)
  IN /\ Len(out.history) <= MaxHistory
     /\ unit' = [at |-> "nav", history |-> out.history, hist_idx |-> out.hist_idx,
                 prop_id |-> prop_id]
     /\ UNCHANGED analysis

\* the selections a graph of NavIds offers: one node, or two in order
Selections ==
  {<<a>> : a \in NavIds} \cup {s \in {<<a, b>> : a \in NavIds, b \in NavIds} : s[1] # s[2]}

\* nodes are selected in the graph
SelectNodes ==
  /\ unit.at = "nav"
  /\ \E sel \in Selections : Triggered(sel, FALSE, NoNode, SelectedProp, NoNode)

\* the selection is emptied
Deselect ==
  /\ unit.at = "nav"
  /\ Triggered(<<>>, FALSE, NoNode, SelectedProp, NoNode)

\* a node is tapped, or the tap data is cleared
TapNode ==
  /\ unit.at = "nav"
  /\ \E n \in NavIds \cup {NoNode} : Triggered(<<>>, FALSE, n, TapNodeProp, NoNode)

\* an edge is tapped, or the tap data is cleared
TapEdge ==
  /\ unit.at = "nav"
  /\ \E e \in BOOLEAN : Triggered(<<>>, e, NoNode, TapEdgeProp, NoNode)

\* a search result is clicked
SearchItem ==
  /\ unit.at = "nav"
  /\ \E tid \in NavIds : Triggered(<<>>, FALSE, NoNode, SearchProp(tid), tid)

\* the back button is pressed
BtnBack ==
  /\ unit.at = "nav"
  /\ Triggered(<<>>, FALSE, NoNode, BackProp, NoNode)

\* the forward button is pressed
BtnFwd ==
  /\ unit.at = "nav"
  /\ Triggered(<<>>, FALSE, NoNode, FwdProp, NoNode)

\* the opacity setting is moved, with or without a selection
Setting ==
  /\ unit.at = "nav"
  /\ \E sel \in Selections \cup {<<>>} : Triggered(sel, FALSE, NoNode, SettingProp, NoNode)

NextNav ==
  \/ SelectNodes
  \/ Deselect
  \/ TapNode
  \/ TapEdge
  \/ SearchItem
  \/ BtnBack
  \/ BtnFwd
  \/ Setting

SpecNav == InitNav /\ [][NextNav]_vars

\* the index is -1 on an empty history and inside the history otherwise
IndexInHistory ==
  /\ unit.hist_idx = -1 <=> unit.history = <<>>
  /\ unit.history # <<>> => 0 <= unit.hist_idx /\ unit.hist_idx < Len(unit.history)

\* no entry is followed by itself
NoRepeatedEntry ==
  \A i \in 1..(Len(unit.history) - 1) : unit.history[i] # unit.history[i + 1]

\* a press of back or forward moves one entry, or nothing at the end it faces
PressMovesOne ==
  /\ unit'.prop_id = BackProp =>
       /\ unit'.history = unit.history
       /\ unit'.hist_idx = IF unit.hist_idx > 0 THEN unit.hist_idx - 1 ELSE unit.hist_idx
  /\ unit'.prop_id = FwdProp =>
       /\ unit'.history = unit.history
       /\ unit'.hist_idx = IF unit.hist_idx < Len(unit.history) - 1
                           THEN unit.hist_idx + 1 ELSE unit.hist_idx

\* C20: from the empty history with index -1, after any selections, search
\* clicks, back and forward presses and resets, the index is -1 exactly when
\* the history is empty and otherwise 0 <= index < len(history); back and
\* forward change the index by exactly one, leave the list alone and do
\* nothing at the first and at the last entry; no two adjacent entries are equal
C20_HistoryStaysConsistent ==
  /\ [](IndexInHistory /\ NoRepeatedEntry)
  /\ [][PressMovesOne]_vars

\* back was pressed from the third entry of a history and moved to the second
C20_Witness ==
  /\ unit.at = "nav"
  /\ Len(unit.history) >= 3
  /\ unit.hist_idx = Len(unit.history) - 2
  /\ unit.prop_id = BackProp

====
